---- MODULE Spec2Model ----
(***************************************************************************)
(* Model of internal/cheapoffers/cheapoffers.go: Find, findForTripLength   *)
(* and validateArgs, run against a stub of the flights pricing client.     *)
(*                                                                         *)
(* Find validates the request, then searches the trip lengths one after    *)
(* another.  Each search fetches the price graph, starts one goroutine per *)
(* price-graph offer, and collects what the goroutines send on resultsCh   *)
(* until a closer goroutine, which waits on the WaitGroup, closes it.      *)
(* Dates are day numbers and prices are integers.                          *)
(***************************************************************************)
EXTENDS Integers, Sequences, FiniteSets, TLC

VARIABLES
    args,             \* the Args value passed to Find
    client,           \* the data the stub pricing client answers with
    ctxDone,          \* the caller's ctx has been cancelled
    pc,               \* where Find is
    tripIdx,          \* position of the range loop over args.TripLengths
    allResults,       \* Find's allResults
    ret,              \* what Find returned: [results, err]
    priceGraphOffers, \* findForTripLength's priceGraphOffers
    task,             \* the refinement goroutines of the running search
    cancelled,        \* cancel() of ctxWithCancel has been called
    resultsCh,        \* the items buffered in resultsCh
    closed,           \* resultsCh has been closed
    wg,               \* the WaitGroup counter
    results,          \* findForTripLength's results
    firstErr,         \* findForTripLength's firstErr
    calls,            \* how many calls each client operation has received
    cancelErr,        \* the error held by the goroutine whose cancel() came first
    faulted           \* some call of the pricing client has failed

vars == <<args, client, ctxDone, pc, tripIdx, allResults, ret, priceGraphOffers,
          task, cancelled, resultsCh, closed, wg, results, firstErr, calls,
          cancelErr, faulted>>

findVars == <<pc, tripIdx, allResults, ret>>
searchVars == <<priceGraphOffers, task, cancelled, resultsCh, closed, wg, results,
                firstErr, cancelErr>>

(***************************************************************************)
(* Bounds of the model.                                                    *)
(***************************************************************************)
MaxDate == 2
MaxTrips == 2
MaxOffers == 2
MaxPrice == 2

Dates == 1..MaxDate
TripLengthValues == (0 - 1)..MaxTrips
Prices == 0..MaxPrice
Lows == 1..(MaxPrice + 1)
Airports == <<"AAA", "BBB">>
DstAirport == "ZZZ"
CitySets == {<<>>, <<"City">>}

SeqsUpTo(S, n) == UNION {[1..m -> S] : m \in 0..n}

(***************************************************************************)
(* Values.                                                                 *)
(***************************************************************************)
Nil == <<>>
Err(kind, op, who) == <<kind, op, who>>

NoRange == [present |-> FALSE, Low |-> 0]
Range(low) == [present |-> TRUE, Low |-> low]

ZeroOffer == [StartDate |-> 0, ReturnDate |-> 0, SrcAirportCode |-> "",
              DstAirportCode |-> "", Price |-> 0]

ZeroCalls == [GetPriceGraph |-> 0, GetOffers |-> 0, SerializeURL |-> 0]

Called(op) == [calls EXCEPT ![op] = @ + 1]

(***************************************************************************)
(* validateArgs.                                                           *)
(***************************************************************************)
\* validateArgs letting a trip length of zero through
validateArgsZeroLength(a) ==
    IF Len(a.TripLengths) = 0
    THEN Err("invalid", "at least one trip length is required", 0)
    ELSE IF \E k \in 1..Len(a.TripLengths) : a.TripLengths[k] < 0
    THEN Err("invalid", "trip lengths must be positive", 0)
    ELSE IF a.RangeEndDate < a.RangeStartDate
    THEN Err("invalid", "rangeEndDate must be on or after rangeStartDate", 0)
    ELSE IF Len(a.SrcCities) = 0
    THEN Err("invalid", "at least one source city is required", 0)
    ELSE IF Len(a.DstCities) = 0
    THEN Err("invalid", "at least one destination city is required", 0)
    ELSE Nil

validateArgs(a) ==
    IF Len(a.TripLengths) = 0
    THEN Err("invalid", "at least one trip length is required", 0)
    ELSE IF \E k \in 1..Len(a.TripLengths) : a.TripLengths[k] <= 0
    THEN Err("invalid", "trip lengths must be positive", 0)
    ELSE IF a.RangeEndDate < a.RangeStartDate
    THEN Err("invalid", "rangeEndDate must be on or after rangeStartDate", 0)
    ELSE IF Len(a.SrcCities) = 0
    THEN Err("invalid", "at least one source city is required", 0)
    ELSE IF Len(a.DstCities) = 0
    THEN Err("invalid", "at least one destination city is required", 0)
    ELSE Nil

(***************************************************************************)
(* The stub pricing client.  It answers identical calls identically: the   *)
(* price graph lists one sample per entry of client.graph, the detailed    *)
(* offers of a departure date are client.offers of that date, dated        *)
(* client.startOf of it, and the price range of a route is client.low of   *)
(* its source airport.                                                     *)
(***************************************************************************)
GetPriceGraph(tripLength) ==
    [k \in 1..Len(client.graph) |->
        [StartDate |-> client.graph[k], ReturnDate |-> client.graph[k] + tripLength]]

GetOffers(date, returnDate) ==
    [k \in 1..Len(client.offers[date]) |->
        [StartDate |-> client.startOf[date],
         ReturnDate |-> client.startOf[date] + (returnDate - date),
         SrcAirportCode |-> client.offers[date][k].src,
         DstAirportCode |-> DstAirport,
         Price |-> client.offers[date][k].price]]

GetPriceRange(o) == client.low[o.SrcAirportCode]

SerializeURL(o) ==
    <<"url", o.StartDate, o.ReturnDate, o.SrcAirportCode, o.DstAirportCode>>

(***************************************************************************)
(* The refinement goroutine's choice of bestOffer (lines 117-125).         *)
(***************************************************************************)
\* the loop body of lines 118-125 without the skip of zero prices
BetterNoSkip(bestOffer, fullOffer) ==
    IF bestOffer.Price = 0 \/ fullOffer.Price < bestOffer.Price
    THEN fullOffer
    ELSE bestOffer

Better(bestOffer, fullOffer) ==
    IF fullOffer.Price = 0
    THEN bestOffer
    ELSE IF bestOffer.Price = 0 \/ fullOffer.Price < bestOffer.Price
    THEN fullOffer
    ELSE bestOffer

RECURSIVE BestFrom(_, _, _)
BestFrom(fullOffers, k, bestOffer) ==
    IF k > Len(fullOffers)
    THEN bestOffer
    ELSE BestFrom(fullOffers, k + 1, Better(bestOffer, fullOffers[k]))

BestOffer(fullOffers) == BestFrom(fullOffers, 1, ZeroOffer)

\* the comparison of line 149 letting a price equal to the low through
QualifiesAtLow(bestOffer, priceRange) == ~(bestOffer.Price > priceRange.Low)

Qualifies(bestOffer, priceRange) == ~(bestOffer.Price >= priceRange.Low)

Result(bestOffer, tripLength, url) ==
    [StartDate |-> bestOffer.StartDate,
     ReturnDate |-> bestOffer.ReturnDate,
     SrcAirport |-> bestOffer.SrcAirportCode,
     DstAirport |-> bestOffer.DstAirportCode,
     Price |-> bestOffer.Price,
     TripLength |-> tripLength,
     ShareableLink |-> url]

ZeroResult == Result(ZeroOffer, 0, Nil)

(***************************************************************************)
(* The comparator of Find's sort.Slice, and sort.Slice itself, which for   *)
(* slices of at most 12 elements is an insertion sort.                     *)
(***************************************************************************)
\* the comparator without its tie-breaks
LessByPrice(a, b) == a.Price < b.Price

Less(a, b) ==
    IF a.Price = b.Price
    THEN IF a.StartDate = b.StartDate
         THEN IF a.ReturnDate = b.ReturnDate
              THEN a.TripLength < b.TripLength
              ELSE a.ReturnDate < b.ReturnDate
         ELSE a.StartDate < b.StartDate
    ELSE a.Price < b.Price

RECURSIVE SinkDown(_, _)
SinkDown(s, j) ==
    IF j > 1 /\ Less(s[j], s[j - 1])
    THEN SinkDown([s EXCEPT ![j] = s[j - 1], ![j - 1] = s[j]], j - 1)
    ELSE s

RECURSIVE SortFrom(_, _)
SortFrom(s, i) == IF i > Len(s) THEN s ELSE SortFrom(SinkDown(s, i), i + 1)

SortSlice(s) == SortFrom(s, 2)

(***************************************************************************)
(* Find (lines 36-65).                                                     *)
(***************************************************************************)
\* the loop of lines 43-49 taking the trip lengths from the end of the list
tripLengthFromEnd == args.TripLengths[Len(args.TripLengths) + 1 - tripIdx]

tripLength == args.TripLengths[tripIdx]

Returned(rs, err) == [results |-> rs, err |-> err]

Validate ==
    /\ pc = "validate"
    /\ IF validateArgs(args) # Nil
       THEN /\ pc' = "done"
            /\ ret' = Returned(<<>>, validateArgs(args))
       ELSE /\ pc' = "loop"
            /\ UNCHANGED ret
    /\ UNCHANGED <<args, client, ctxDone, tripIdx, allResults, calls, faulted>>
    /\ UNCHANGED searchVars

SortAndReturn ==
    /\ pc = "loop"
    /\ tripIdx > Len(args.TripLengths)
    /\ allResults' = SortSlice(allResults)
    /\ ret' = Returned(allResults', Nil)
    /\ pc' = "done"
    /\ UNCHANGED <<args, client, ctxDone, tripIdx, calls, faulted>>
    /\ UNCHANGED searchVars

(***************************************************************************)
(* findForTripLength: the price graph call (lines 68-81).                  *)
(***************************************************************************)
ErrKinds(cancelledCtx) == IF cancelledCtx THEN {"net", "canceled"} ELSE {"net"}

CallPriceGraph ==
    /\ pc = "loop"
    /\ tripIdx <= Len(args.TripLengths)
    /\ pc' = "priceGraph"
    /\ calls' = Called("GetPriceGraph")
    /\ UNCHANGED <<args, client, ctxDone, tripIdx, allResults, ret, faulted>>
    /\ UNCHANGED searchVars

NewTask == [pc |-> "start", bestOffer |-> ZeroOffer, url |-> Nil, err |-> Nil]

PriceGraphReturn ==
    /\ pc = "priceGraph"
    /\ priceGraphOffers' = GetPriceGraph(tripLength)
    /\ task' = [i \in 1..Len(priceGraphOffers') |-> NewTask]
    /\ wg' = Len(priceGraphOffers')
    /\ resultsCh' = <<>>
    /\ closed' = FALSE
    /\ cancelled' = FALSE
    /\ results' = <<>>
    /\ firstErr' = Nil
    /\ cancelErr' = Nil
    /\ pc' = "collect"
    /\ UNCHANGED <<args, client, ctxDone, tripIdx, allResults, ret, calls, faulted>>

\* findForTripLength taking a failed price graph for one without samples
PriceGraphFailAsEmpty ==
    /\ pc = "priceGraph"
    /\ priceGraphOffers' = <<>>
    /\ task' = <<>>
    /\ wg' = 0
    /\ resultsCh' = <<>>
    /\ closed' = FALSE
    /\ cancelled' = FALSE
    /\ results' = <<>>
    /\ firstErr' = Nil
    /\ cancelErr' = Nil
    /\ pc' = "collect"
    /\ faulted' = TRUE
    /\ UNCHANGED <<args, client, ctxDone, tripIdx, allResults, ret, calls>>

PriceGraphFail ==
    /\ pc = "priceGraph"
    /\ \E kind \in ErrKinds(ctxDone) :
          ret' = Returned(<<>>, Err(kind, "GetPriceGraph", 0))
    /\ pc' = "done"
    /\ faulted' = TRUE
    /\ UNCHANGED <<args, client, ctxDone, tripIdx, allResults, calls>>
    /\ UNCHANGED searchVars

(***************************************************************************)
(* The refinement goroutines (lines 96-181).  A call is issued in one step *)
(* and returns in a later one; wg.Done, deferred, runs with the            *)
(* goroutine's last step.                                                  *)
(***************************************************************************)
Tasks == DOMAIN task

ctxCancelled == cancelled \/ ctxDone

\* a channel with room for one item less than there are goroutines
CapacityShort == Len(priceGraphOffers) - 1

\* the capacity of resultsCh (line 91)
Capacity == Len(priceGraphOffers)

Goto(i, where) == [task EXCEPT ![i].pc = where]

Finished(i, how) ==
    [task EXCEPT ![i] = [pc |-> how, bestOffer |-> ZeroOffer, url |-> Nil, err |-> @.err]]

\* a goroutine that, having nothing to report, goes on to send a Result
NoDataFallsThrough(i) == Goto(i, "sendResult")

\* a return that sends nothing (lines 126-128, 145-147, 149-151)
NoData(i) == Finished(i, "doneNoData")

Failed(i, err) == [task EXCEPT ![i].pc = "cancel", ![i].err = err]

TaskStart(i) ==
    /\ pc = "collect"
    /\ task[i].pc = "start"
    /\ task' = Goto(i, "offers")
    /\ calls' = Called("GetOffers")
    /\ UNCHANGED <<args, client, ctxDone, faulted>>
    /\ UNCHANGED findVars
    /\ UNCHANGED <<priceGraphOffers, cancelled, resultsCh, closed, wg, results,
                   firstErr, cancelErr>>

OffersReturn(i) ==
    /\ pc = "collect"
    /\ task[i].pc = "offers"
    /\ LET offer == priceGraphOffers[i]
           fullOffers == GetOffers(offer.StartDate, offer.ReturnDate)
           bestOffer == BestOffer(fullOffers)
       IN  IF bestOffer.Price = 0
           THEN /\ task' = NoData(i)
                /\ wg' = wg - 1
                /\ UNCHANGED calls
           ELSE /\ task' = [task EXCEPT ![i].pc = "baseline", ![i].bestOffer = bestOffer]
                /\ calls' = Called("GetOffers")
                /\ UNCHANGED wg
    /\ UNCHANGED <<args, client, ctxDone, faulted>>
    /\ UNCHANGED findVars
    /\ UNCHANGED <<priceGraphOffers, cancelled, resultsCh, closed, results,
                   firstErr, cancelErr>>

\* a goroutine asking for the link of every winner whose route has a price range
BaselineReturnUnchecked(i) ==
    /\ pc = "collect"
    /\ task[i].pc = "baseline"
    /\ LET priceRange == GetPriceRange(task[i].bestOffer)
       IN  IF ~priceRange.present
           THEN /\ task' = NoData(i)
                /\ wg' = wg - 1
                /\ UNCHANGED calls
           ELSE /\ task' = Goto(i, "serialize")
                /\ calls' = Called("SerializeURL")
                /\ UNCHANGED wg
    /\ UNCHANGED <<args, client, ctxDone, faulted>>
    /\ UNCHANGED findVars
    /\ UNCHANGED <<priceGraphOffers, cancelled, resultsCh, closed, results,
                   firstErr, cancelErr>>

BaselineReturn(i) ==
    /\ pc = "collect"
    /\ task[i].pc = "baseline"
    /\ LET priceRange == GetPriceRange(task[i].bestOffer)
       IN  IF ~priceRange.present
           THEN /\ task' = NoData(i)
                /\ wg' = wg - 1
                /\ UNCHANGED calls
           ELSE IF ~Qualifies(task[i].bestOffer, priceRange)
           THEN /\ task' = NoData(i)
                /\ wg' = wg - 1
                /\ UNCHANGED calls
           ELSE /\ task' = Goto(i, "serialize")
                /\ calls' = Called("SerializeURL")
                /\ UNCHANGED wg
    /\ UNCHANGED <<args, client, ctxDone, faulted>>
    /\ UNCHANGED findVars
    /\ UNCHANGED <<priceGraphOffers, cancelled, resultsCh, closed, results,
                   firstErr, cancelErr>>

SerializeReturn(i) ==
    /\ pc = "collect"
    /\ task[i].pc = "serialize"
    /\ task' = [task EXCEPT ![i].pc = "sendResult",
                            ![i].url = SerializeURL(task[i].bestOffer)]
    /\ UNCHANGED <<args, client, ctxDone, calls, faulted>>
    /\ UNCHANGED findVars
    /\ UNCHANGED <<priceGraphOffers, cancelled, resultsCh, closed, wg, results,
                   firstErr, cancelErr>>

SendResult(i) ==
    /\ pc = "collect"
    /\ task[i].pc = "sendResult"
    /\ Len(resultsCh) < Capacity
    /\ resultsCh' = Append(resultsCh,
          [result |-> Result(task[i].bestOffer, tripLength, task[i].url), err |-> Nil])
    /\ task' = Finished(i, "doneResult")
    /\ wg' = wg - 1
    /\ UNCHANGED <<args, client, ctxDone, calls, faulted>>
    /\ UNCHANGED findVars
    /\ UNCHANGED <<priceGraphOffers, cancelled, closed, results, firstErr, cancelErr>>

CallFails(i, at, op) ==
    /\ pc = "collect"
    /\ task[i].pc = at
    /\ \E kind \in ErrKinds(ctxCancelled) : task' = Failed(i, Err(kind, op, i))
    /\ faulted' = TRUE
    /\ UNCHANGED <<args, client, ctxDone, calls>>
    /\ UNCHANGED findVars
    /\ UNCHANGED <<priceGraphOffers, cancelled, resultsCh, closed, wg, results,
                   firstErr, cancelErr>>

OffersFail(i) == CallFails(i, "offers", "GetOffers")

BaselineFail(i) == CallFails(i, "baseline", "GetOffers for the baseline")

SerializeFail(i) == CallFails(i, "serialize", "SerializeURL")

\* a goroutine that reports its error without calling cancel
CancelForgotten(i) ==
    /\ pc = "collect"
    /\ task[i].pc = "cancel"
    /\ cancelErr' = IF cancelErr = Nil THEN task[i].err ELSE cancelErr
    /\ task' = Goto(i, "sendErr")
    /\ UNCHANGED <<args, client, ctxDone, calls, faulted>>
    /\ UNCHANGED findVars
    /\ UNCHANGED <<priceGraphOffers, cancelled, resultsCh, closed, wg, results, firstErr>>

Cancel(i) ==
    /\ pc = "collect"
    /\ task[i].pc = "cancel"
    /\ cancelled' = TRUE
    /\ cancelErr' = IF cancelErr = Nil THEN task[i].err ELSE cancelErr
    /\ task' = Goto(i, "sendErr")
    /\ UNCHANGED <<args, client, ctxDone, calls, faulted>>
    /\ UNCHANGED findVars
    /\ UNCHANGED <<priceGraphOffers, resultsCh, closed, wg, results, firstErr>>

SendErr(i) ==
    /\ pc = "collect"
    /\ task[i].pc = "sendErr"
    /\ Len(resultsCh) < Capacity
    /\ resultsCh' = Append(resultsCh, [result |-> ZeroResult, err |-> task[i].err])
    /\ task' = Finished(i, "doneErr")
    /\ wg' = wg - 1
    /\ UNCHANGED <<args, client, ctxDone, calls, faulted>>
    /\ UNCHANGED findVars
    /\ UNCHANGED <<priceGraphOffers, cancelled, closed, results, firstErr, cancelErr>>

(***************************************************************************)
(* The closer goroutine (lines 183-186), the receive loop (lines 193-201)  *)
(* and the return of findForTripLength into Find's loop (lines 203-207,    *)
(* 44-48), with the deferred cancel of line 84.                            *)
(***************************************************************************)
Recorded(err, item) == IF err = Nil THEN item.err ELSE err

\* the receive loop keeping only the Result it received last
CollectedLast(rs, item) == <<item.result>>

Collected(rs, item) == Append(rs, item.result)

\* findForTripLength returning what it collected whenever it collected something
OutcomeBestEffort(err, rs) ==
    IF err # Nil /\ rs = <<>> THEN Returned(<<>>, err) ELSE Returned(rs, Nil)

Outcome(err, rs) == IF err # Nil THEN Returned(<<>>, err) ELSE Returned(rs, Nil)

\* the closer goroutine closing resultsCh without waiting for the goroutines
CloseEarly ==
    /\ pc = "collect"
    /\ ~closed
    /\ closed' = TRUE
    /\ UNCHANGED <<args, client, ctxDone, calls, faulted>>
    /\ UNCHANGED findVars
    /\ UNCHANGED <<priceGraphOffers, task, cancelled, resultsCh, wg, results,
                   firstErr, cancelErr>>

Close ==
    /\ pc = "collect"
    /\ wg = 0
    /\ ~closed
    /\ closed' = TRUE
    /\ UNCHANGED <<args, client, ctxDone, calls, faulted>>
    /\ UNCHANGED findVars
    /\ UNCHANGED <<priceGraphOffers, task, cancelled, resultsCh, wg, results,
                   firstErr, cancelErr>>

Receive ==
    /\ pc = "collect"
    /\ resultsCh # <<>>
    /\ LET item == Head(resultsCh)
       IN  IF item.err # Nil
           THEN /\ firstErr' = Recorded(firstErr, item)
                /\ UNCHANGED results
           ELSE /\ results' = Collected(results, item)
                /\ UNCHANGED firstErr
    /\ resultsCh' = Tail(resultsCh)
    /\ UNCHANGED <<args, client, ctxDone, calls, faulted>>
    /\ UNCHANGED findVars
    /\ UNCHANGED <<priceGraphOffers, task, cancelled, closed, wg, cancelErr>>

\* Find's loop going on to the next trip length when a search has failed
SearchReturnSkipsFailed ==
    /\ pc = "collect"
    /\ resultsCh = <<>>
    /\ closed
    /\ cancelled' = TRUE
    /\ allResults' = allResults \o Outcome(firstErr, results).results
    /\ tripIdx' = tripIdx + 1
    /\ pc' = "loop"
    /\ UNCHANGED <<args, client, ctxDone, calls, faulted, ret>>
    /\ UNCHANGED <<priceGraphOffers, task, resultsCh, closed, wg, results,
                   firstErr, cancelErr>>

\* findForTripLength returning as soon as it has recorded an error
SearchReturnOnError ==
    /\ pc = "collect"
    /\ (resultsCh = <<>> /\ closed) \/ firstErr # Nil
    /\ cancelled' = TRUE
    /\ IF Outcome(firstErr, results).err # Nil
       THEN /\ ret' = Returned(<<>>, Outcome(firstErr, results).err)
            /\ pc' = "done"
            /\ UNCHANGED <<tripIdx, allResults>>
       ELSE /\ allResults' = allResults \o Outcome(firstErr, results).results
            /\ tripIdx' = tripIdx + 1
            /\ pc' = "loop"
            /\ UNCHANGED ret
    /\ UNCHANGED <<args, client, ctxDone, calls, faulted>>
    /\ UNCHANGED <<priceGraphOffers, task, resultsCh, closed, wg, results,
                   firstErr, cancelErr>>

SearchReturn ==
    /\ pc = "collect"
    /\ resultsCh = <<>>
    /\ closed
    /\ cancelled' = TRUE
    /\ IF Outcome(firstErr, results).err # Nil
       THEN /\ ret' = Returned(<<>>, Outcome(firstErr, results).err)
            /\ pc' = "done"
            /\ UNCHANGED <<tripIdx, allResults>>
       ELSE /\ allResults' = allResults \o Outcome(firstErr, results).results
            /\ tripIdx' = tripIdx + 1
            /\ pc' = "loop"
            /\ UNCHANGED ret
    /\ UNCHANGED <<args, client, ctxDone, calls, faulted>>
    /\ UNCHANGED <<priceGraphOffers, task, resultsCh, closed, wg, results,
                   firstErr, cancelErr>>

(***************************************************************************)
(* The caller cancels the context it passed to Find.                       *)
(***************************************************************************)
CallerCancel ==
    /\ pc # "done"
    /\ ~ctxDone
    /\ ctxDone' = TRUE
    /\ UNCHANGED <<args, client, calls, faulted>>
    /\ UNCHANGED findVars
    /\ UNCHANGED searchVars

(***************************************************************************)
(* Requests and stub clients the model starts from.  A stub's samples      *)
(* depart within the requested range; its tables cover the dates it        *)
(* samples and the airports whose offers carry a price.                    *)
(***************************************************************************)
Requests ==
    [RangeStartDate : Dates, RangeEndDate : Dates,
     TripLengths : SeqsUpTo(TripLengthValues, MaxTrips),
     SrcCities : CitySets, DstCities : CitySets]

AirportAt(k) == Airports[((k - 1) % Len(Airports)) + 1]

AirportSet == {Airports[k] : k \in 1..Len(Airports)}

\* offer lists whose k-th offer leaves from the k-th airport
ListedOffers(n) ==
    UNION {{[k \in 1..m |-> [src |-> AirportAt(k), price |-> p[k]]] : p \in [1..m -> Prices]}
           : m \in 0..n}

\* offer lists of any airports
AnyOffers(n) == SeqsUpTo([src : AirportSet, price : Prices], n)

Elems(s) == {s[k] : k \in 1..Len(s)}

Priced(f) ==
    UNION {{f[d][k].src : k \in {j \in 1..Len(f[d]) : f[d][j].price # 0}} : d \in DOMAIN f}

Datings(g, free) == IF free THEN [Elems(g) -> Dates] ELSE {[d \in Elems(g) |-> d]}

LowTables(srcs) == [srcs -> {NoRange} \cup {Range(l) : l \in Lows}]

Clients(a, n, lists, free) ==
    UNION {UNION {UNION {
        {[graph |-> g, offers |-> f, startOf |-> s, low |-> l] : l \in LowTables(Priced(f))}
        : s \in Datings(g, free)}
        : f \in [Elems(g) -> lists]}
        : g \in SeqsUpTo(a.RangeStartDate..a.RangeEndDate, n)}

NoClient == [graph |-> <<>>, offers |-> <<>>, startOf |-> <<>>, low |-> <<>>]

InitWith(requests, n, lists, free) ==
    /\ args \in requests
    /\ client \in IF validateArgs(args) = Nil THEN Clients(args, n, lists, free)
                  ELSE {NoClient}
    /\ ctxDone = FALSE
    /\ pc = "validate"
    /\ tripIdx = 1
    /\ allResults = <<>>
    /\ ret = Returned(<<>>, Nil)
    /\ priceGraphOffers = <<>>
    /\ task = <<>>
    /\ cancelled = FALSE
    /\ resultsCh = <<>>
    /\ closed = FALSE
    /\ wg = 0
    /\ results = <<>>
    /\ firstErr = Nil
    /\ calls = ZeroCalls
    /\ cancelErr = Nil
    /\ faulted = FALSE

(***************************************************************************)
(* Spec: every request, a client any of whose calls may fail, a caller     *)
(* that may cancel; the stub answers with at most one offer per date,      *)
(* dated as queried.                                                       *)
(***************************************************************************)
Init == InitWith(Requests, MaxDate, ListedOffers(1), FALSE)

Reliable ==
    \/ Validate
    \/ SortAndReturn
    \/ CallPriceGraph
    \/ PriceGraphReturn
    \/ \E i \in Tasks : TaskStart(i)
    \/ \E i \in Tasks : OffersReturn(i)
    \/ \E i \in Tasks : BaselineReturn(i)
    \/ \E i \in Tasks : SerializeReturn(i)
    \/ \E i \in Tasks : SendResult(i)
    \/ Close
    \/ Receive
    \/ SearchReturn

Faults ==
    \/ PriceGraphFail
    \/ \E i \in Tasks : OffersFail(i)
    \/ \E i \in Tasks : BaselineFail(i)
    \/ \E i \in Tasks : SerializeFail(i)
    \/ \E i \in Tasks : Cancel(i)
    \/ \E i \in Tasks : SendErr(i)
    \/ CallerCancel

Next == Reliable \/ Faults

Spec == Init /\ [][Next]_vars

(***************************************************************************)
(* SpecLive: one trip length, a client any of whose calls may fail and a   *)
(* caller that may cancel.  Every call of the client returns and every     *)
(* goroutine that can take a step is scheduled: some step of Find or of    *)
(* its goroutines is taken as long as one is possible.                     *)
(***************************************************************************)
LiveRequests == {a \in Requests : Len(a.TripLengths) = 1}

InitLive == InitWith(LiveRequests, MaxDate, ListedOffers(1), FALSE)

Step ==
    \/ Reliable
    \/ PriceGraphFail
    \/ \E i \in Tasks : OffersFail(i)
    \/ \E i \in Tasks : BaselineFail(i)
    \/ \E i \in Tasks : SerializeFail(i)
    \/ \E i \in Tasks : Cancel(i)
    \/ \E i \in Tasks : SendErr(i)

SpecLive == InitLive /\ [][Next]_vars /\ WF_vars(Step)

(***************************************************************************)
(* SpecData: the requests validateArgs accepts over the whole range of     *)
(* dates, and a client none of whose calls fails; the stub answers with    *)
(* offers of any airport, dated as it likes.                               *)
(***************************************************************************)
WholeRange ==
    {a \in Requests : validateArgs(a) = Nil /\ a.RangeStartDate = 1
                        /\ a.RangeEndDate = MaxDate}

InitData == InitWith(WholeRange, MaxDate, AnyOffers(1), TRUE)

SpecData == InitData /\ [][Reliable]_vars

(***************************************************************************)
(* SpecOne: one trip length and at most one sample, a client none of whose *)
(* calls fails; the stub answers with up to MaxOffers + 1 offers of any    *)
(* airport and price.                                                      *)
(***************************************************************************)
OneTrip == {a \in WholeRange : Len(a.TripLengths) = 1}

InitOne == InitWith(OneTrip, 1, AnyOffers(MaxOffers + 1), TRUE)

SpecOne == InitOne /\ [][Reliable]_vars

(***************************************************************************)
(* SpecSigned: one trip length and at most one sample, a client none of    *)
(* whose calls fails; Price is a float64, and the stub answers with up to  *)
(* MaxOffers offers whose prices may be negative.                          *)
(***************************************************************************)
SignedPrices == (0 - 1)..MaxPrice

SignedOffers(n) == SeqsUpTo([src : AirportSet, price : SignedPrices], n)

InitSigned == InitWith(OneTrip, 1, SignedOffers(MaxOffers), TRUE)

SpecSigned == InitSigned /\ [][Reliable]_vars

(***************************************************************************)
(* What the properties below speak of.                                     *)
(***************************************************************************)
Done == pc = "done"

Succeeded == Done /\ ret.err = Nil

\* the samples of the price graph of the t-th requested trip length
SamplesOf(t) == GetPriceGraph(args.TripLengths[t])

\* the offers that carry a price, and the first of the cheapest of them
ValidOffers(os) == {k \in 1..Len(os) : os[k].Price # 0}

Cheapest(os) ==
    CHOOSE k \in ValidOffers(os) :
        \A j \in ValidOffers(os) :
            os[k].Price < os[j].Price \/ (os[k].Price = os[j].Price /\ k <= j)

\* a sample whose cheapest priced offer lies below the low of its route
IsBargain(s) ==
    LET os == GetOffers(s.StartDate, s.ReturnDate)
    IN  /\ ValidOffers(os) # {}
        /\ GetPriceRange(os[Cheapest(os)]).present
        /\ os[Cheapest(os)].Price < GetPriceRange(os[Cheapest(os)]).Low

(***************************************************************************)
(* C1: once a call of the pricing client has failed, Find starts no        *)
(* further trip length and returns an error and no results, whatever the   *)
(* goroutines had produced before; Find never returns results together     *)
(* with an error.                                                          *)
(***************************************************************************)
C1_FailureDiscardsResults ==
    /\ faulted => pc \in {"collect", "done"}
    /\ Done /\ faulted => ret.err # Nil /\ ret.results = <<>>
    /\ Done /\ ret.err # Nil => ret.results = <<>>

\* a sibling's result and an earlier trip length's results were collected
\* before the failure was returned
C1_Witness ==
    /\ Done
    /\ \E i \in Tasks : task[i].err # Nil /\ task[i].pc = "doneErr"
    /\ \E i \in Tasks : task[i].pc = "doneResult"
    /\ results # <<>>
    /\ allResults # <<>>
    /\ ret.err # Nil

(***************************************************************************)
(* C2: a request with no trip length, a trip length <= 0, an end date      *)
(* before the start date, no source city or no destination city is         *)
(* returned with an error and no results before any client operation is    *)
(* called; any other request passes validation.                            *)
(***************************************************************************)
Rejected(a) ==
    \/ a.TripLengths = <<>>
    \/ \E k \in DOMAIN a.TripLengths : a.TripLengths[k] <= 0
    \/ a.RangeEndDate < a.RangeStartDate
    \/ a.SrcCities = <<>>
    \/ a.DstCities = <<>>

C2_ValidationBeforeCalls ==
    IF Rejected(args)
    THEN /\ calls = ZeroCalls
         /\ pc \in {"validate", "done"}
         /\ Done => ret.err # Nil /\ ret.results = <<>>
    ELSE /\ pc # "validate" => calls.GetPriceGraph > 0 \/ pc = "loop"
         /\ Done => ret.err = Nil \/ ret.err[1] # "invalid"

\* a request rejected only for a trip length of zero
C2_Witness ==
    /\ Done
    /\ \E k \in DOMAIN args.TripLengths : args.TripLengths[k] = 0
    /\ \A k \in DOMAIN args.TripLengths : args.TripLengths[k] >= 0
    /\ args.RangeStartDate = args.RangeEndDate
    /\ args.SrcCities # <<>>
    /\ args.DstCities # <<>>
    /\ ret.err # Nil

(***************************************************************************)
(* C3: every Result of a successful Find is priced strictly below the low  *)
(* of the price range the stub holds for the route of that Result.         *)
(***************************************************************************)
C3_BelowLow ==
    Succeeded =>
        \A k \in DOMAIN ret.results :
            /\ ret.results[k].SrcAirport \in DOMAIN client.low
            /\ client.low[ret.results[k].SrcAirport].present
            /\ ret.results[k].Price < client.low[ret.results[k].SrcAirport].Low

\* a successful run with a Result, while another sample's offer is priced
\* exactly at the low of its route
C3_Witness ==
    /\ Succeeded
    /\ ret.results # <<>>
    /\ \E d \in DOMAIN client.offers : \E k \in DOMAIN client.offers[d] :
          /\ client.offers[d][k].price # 0
          /\ client.low[client.offers[d][k].src] = Range(client.offers[d][k].price)

(***************************************************************************)
(* C4: the sequence a successful Find returns is ascending in              *)
(* (price, departure date, return date, trip length), compared             *)
(* lexicographically: no adjacent pair is out of order.                    *)
(***************************************************************************)
Key(r) == <<r.Price, r.StartDate, r.ReturnDate, r.TripLength>>

LexLess(x, y) == \E k \in 1..4 : x[k] < y[k] /\ \A j \in 1..(k - 1) : x[j] = y[j]

C4_Sorted ==
    Succeeded =>
        \A k \in 1..(Len(ret.results) - 1) :
            ~LexLess(Key(ret.results[k + 1]), Key(ret.results[k]))

\* three or more Results, the longer trip length requested first, and the
\* last search received its Results out of order
C4_Witness ==
    /\ Succeeded
    /\ Len(ret.results) >= 3
    /\ Len(args.TripLengths) = 2
    /\ args.TripLengths[1] > args.TripLengths[2]
    /\ Len(results) = 2
    /\ LexLess(Key(results[2]), Key(results[1]))

(***************************************************************************)
(* C5: with a client that answers identical calls identically, a           *)
(* successful Find returns the same sequence under every scheduling of the *)
(* goroutines: the one it returns when the goroutines of each search       *)
(* finish in the order of their samples.                                   *)
(***************************************************************************)
RefineInTurn(s, tl) ==
    LET bestOffer == BestOffer(GetOffers(s.StartDate, s.ReturnDate))
    IN  IF bestOffer.Price = 0
        THEN <<>>
        ELSE IF ~GetPriceRange(bestOffer).present
        THEN <<>>
        ELSE IF ~Qualifies(bestOffer, GetPriceRange(bestOffer))
        THEN <<>>
        ELSE <<Result(bestOffer, tl, SerializeURL(bestOffer))>>

RECURSIVE SearchInTurn(_, _)
SearchInTurn(t, j) ==
    IF j > Len(SamplesOf(t))
    THEN <<>>
    ELSE RefineInTurn(SamplesOf(t)[j], args.TripLengths[t]) \o SearchInTurn(t, j + 1)

RECURSIVE FindInTurn(_)
FindInTurn(t) ==
    IF t > Len(args.TripLengths)
    THEN <<>>
    ELSE SearchInTurn(t, 1) \o FindInTurn(t + 1)

C5_SameOutputUnderEveryScheduling ==
    Succeeded => ret.results = SortSlice(FindInTurn(1))

\* the in-turn output is itself returned, with two Results that tie on
\* (price, departure, return, trip length) and differ in their airport
C5_Witness ==
    /\ Succeeded
    /\ ret.results = SortSlice(FindInTurn(1))
    /\ \E j, k \in DOMAIN ret.results :
          /\ Key(ret.results[j]) = Key(ret.results[k])
          /\ ret.results[j].SrcAirport # ret.results[k].SrcAirport

(***************************************************************************)
(* C6: when no call fails, Find returns exactly one Result for each        *)
(* sample, of each requested trip length, whose cheapest priced offer lies *)
(* below the low of its route, and none for any other sample; the Result   *)
(* is that offer's itinerary and price, with the trip length of its search *)
(* and the link SerializeURL gives for the itinerary.                      *)
(***************************************************************************)
Searched == {<<t, j>> \in (1..MaxTrips) \X (1..MaxDate + 1) :
                t <= Len(args.TripLengths) /\ j <= Len(SamplesOf(t))}

Bargains == {tj \in Searched : IsBargain(SamplesOf(tj[1])[tj[2]])}

ResultOf(tj) ==
    LET s == SamplesOf(tj[1])[tj[2]]
        os == GetOffers(s.StartDate, s.ReturnDate)
        o == os[Cheapest(os)]
    IN  [StartDate |-> o.StartDate,
         ReturnDate |-> o.ReturnDate,
         SrcAirport |-> o.SrcAirportCode,
         DstAirport |-> o.DstAirportCode,
         Price |-> o.Price,
         TripLength |-> args.TripLengths[tj[1]],
         ShareableLink |-> SerializeURL(o)]

Count(seq, x) == Cardinality({k \in DOMAIN seq : seq[k] = x})

C6_OneResultPerBargain ==
    Succeeded =>
        /\ Len(ret.results) = Cardinality(Bargains)
        /\ \A k \in DOMAIN ret.results :
              Count(ret.results, ret.results[k])
                  = Cardinality({tj \in Bargains : ResultOf(tj) = ret.results[k]})

\* two trip lengths, at least two Results, and a sample that is no bargain
C6_Witness ==
    /\ Succeeded
    /\ Len(args.TripLengths) = 2
    /\ Len(ret.results) >= 2
    /\ Bargains # Searched

(***************************************************************************)
(* C7: the price of every Result is the lowest non-zero price among the    *)
(* offers the first GetOffers call returned for the sample it comes from,  *)
(* and belongs to an offer of that itinerary; it is never zero.            *)
(***************************************************************************)
LowestPrice(os) ==
    CHOOSE p \in {os[k].Price : k \in ValidOffers(os)} :
        \A k \in ValidOffers(os) : p <= os[k].Price

ComesFrom(r, s) ==
    LET os == GetOffers(s.StartDate, s.ReturnDate)
    IN  /\ ValidOffers(os) # {}
        /\ r.Price = LowestPrice(os)
        /\ \E k \in ValidOffers(os) :
              /\ os[k].Price = r.Price
              /\ os[k].SrcAirportCode = r.SrcAirport
              /\ os[k].StartDate = r.StartDate
              /\ os[k].ReturnDate = r.ReturnDate

C7_LowestNonZeroPrice ==
    Succeeded =>
        \A k \in DOMAIN ret.results :
            /\ ret.results[k].Price # 0
            /\ \E tj \in Searched :
                  /\ args.TripLengths[tj[1]] = ret.results[k].TripLength
                  /\ ComesFrom(ret.results[k], SamplesOf(tj[1])[tj[2]])

\* a Result from three offers: a zero-priced one first, the cheapest last
C7_Witness ==
    /\ Succeeded
    /\ Len(ret.results) = 1
    /\ \E d \in DOMAIN client.offers :
          /\ Len(client.offers[d]) = 3
          /\ client.offers[d][1].price = 0
          /\ client.offers[d][2].price > client.offers[d][3].price
          /\ client.offers[d][3].price = ret.results[1].Price

(***************************************************************************)
(* C8: a goroutine whose sample offers nothing that qualifies - no priced  *)
(* offer, no price range, or a cheapest price not below the low - and      *)
(* whose calls do not fail takes no step that sends on resultsCh or        *)
(* cancels the shared context; and a Find none of whose calls fails and    *)
(* all of whose samples are of this kind returns no results and a nil      *)
(* error.                                                                  *)
(***************************************************************************)
SilentStep(i) ==
    (/\ pc = "collect"
     /\ pc' = "collect"
     /\ task'[i] # task[i]
     /\ task'[i].err = Nil
     /\ ~IsBargain(priceGraphOffers[i]))
        => (resultsCh' = resultsCh /\ cancelled' = cancelled /\ results' = results
                /\ firstErr' = firstErr)

NothingFound ==
    (/\ Done
     /\ ~faulted
     /\ validateArgs(args) = Nil
     /\ Bargains = {})
        => ret = Returned(<<>>, Nil)

C8_NoDataIsSilent ==
    /\ [][\A i \in Tasks : SilentStep(i)]_vars
    /\ []NothingFound

\* two goroutines that ended without data for different reasons: one had no
\* priced offer, the other a cheapest price that its route does not beat
C8_Witness ==
    /\ Done
    /\ ~faulted
    /\ ret = Returned(<<>>, Nil)
    /\ Len(task) = 2
    /\ \A i \in Tasks : task[i].pc = "doneNoData"
    /\ \E i, j \in Tasks :
          /\ BestOffer(GetOffers(priceGraphOffers[i].StartDate,
                                 priceGraphOffers[i].ReturnDate)).Price = 0
          /\ BestOffer(GetOffers(priceGraphOffers[j].StartDate,
                                 priceGraphOffers[j].ReturnDate)).Price # 0

(***************************************************************************)
(* C9: for a request validateArgs accepts and a client whose price graph   *)
(* lists pairwise distinct samples and whose offers are dated as queried,  *)
(* no two Results Find returns share departure date, return date and trip  *)
(* length.                                                                 *)
(***************************************************************************)
DistinctSamples ==
    \A j, k \in DOMAIN client.graph : client.graph[j] = client.graph[k] => j = k

DatedAsQueried == \A d \in DOMAIN client.startOf : client.startOf[d] = d

Triple(r) == <<r.StartDate, r.ReturnDate, r.TripLength>>

C9_NoSharedTriple ==
    (Succeeded /\ DistinctSamples /\ DatedAsQueried) =>
        \A j, k \in DOMAIN ret.results :
            Triple(ret.results[j]) = Triple(ret.results[k]) => j = k

(***************************************************************************)
(* C10: when a goroutine's call fails and it cancels the shared context,   *)
(* the error the search returns is not one that a sibling's call returned  *)
(* only because that context had been cancelled.                           *)
(***************************************************************************)
C10_FirstErrorWins ==
    (Done /\ cancelErr # Nil /\ ~ctxDone) => ret.err[1] # "canceled"

(***************************************************************************)
(* C11: once a goroutine of a search has cancelled the shared context, no  *)
(* goroutine of that search issues its first GetOffers call.               *)
(***************************************************************************)
Terminal == {"doneNoData", "doneResult", "doneErr"}

StartsOffers(i) ==
    /\ pc = "collect"
    /\ pc' = "collect"
    /\ task[i].pc = "start"
    /\ task'[i].pc = "offers"
    /\ calls'.GetOffers = calls.GetOffers + 1

C11_NoStartAfterCancel ==
    [][\A i \in Tasks : StartsOffers(i) => ~cancelled]_vars

(***************************************************************************)
(* C12: findForTripLength leaves its receive loop and decides its outcome  *)
(* only when every goroutine of the search has ended - with a Result, with *)
(* nothing, or with an error; outside a search no goroutine is running or  *)
(* has a call in flight.                                                   *)
(***************************************************************************)
AllEnded == \A i \in Tasks : task[i].pc \in Terminal

C12_ReturnsAfterAllEnded ==
    /\ [](pc # "collect" => AllEnded /\ wg = 0)
    /\ [][(pc = "collect" /\ pc' # "collect") => (AllEnded /\ closed /\ wg = 0)]_vars

\* a search of two goroutines returned: one had failed, the other had sent
\* its Result
C12_Witness ==
    /\ Done
    /\ Len(task) = 2
    /\ \E i, j \in Tasks : task[i].pc = "doneErr" /\ task[j].pc = "doneResult"

(***************************************************************************)
(* C13: when a call of the search of one trip length has failed, Find      *)
(* returns that search's error and no results, and has issued no call for  *)
(* a later trip length: one GetPriceGraph call per trip length up to the   *)
(* failed one, and no more GetOffers and SerializeURL calls than the       *)
(* samples of those trip lengths allow.                                    *)
(***************************************************************************)
C13_FailFast ==
    (Done /\ faulted) =>
        /\ ret.results = <<>>
        /\ ret.err # Nil
        /\ ret.err = firstErr \/ ret.err[2] = "GetPriceGraph"
        /\ tripIdx <= Len(args.TripLengths)
        /\ calls.GetPriceGraph = tripIdx
        /\ calls.GetOffers <= 2 * tripIdx * Len(client.graph)
        /\ calls.SerializeURL <= tripIdx * Len(client.graph)

\* the first of two trip lengths failed in a goroutine
C13_Witness ==
    /\ Done
    /\ faulted
    /\ Len(args.TripLengths) = 2
    /\ tripIdx = 1
    /\ ret.err = firstErr
    /\ calls.GetPriceGraph = 1

(***************************************************************************)
(* C14: the trip lengths are searched one after another in the order of    *)
(* the request: GetPriceGraph has been called once for each trip length    *)
(* reached, the samples being refined are those of the trip length at that *)
(* position, the next GetPriceGraph call is issued only when every         *)
(* goroutine of the previous search has ended, and the results are sorted  *)
(* once, when Find returns them after the last trip length.                *)
(***************************************************************************)
InRequestOrder ==
    /\ pc \in {"priceGraph", "collect"} => calls.GetPriceGraph = tripIdx
    /\ pc = "loop" => calls.GetPriceGraph = tripIdx - 1
    /\ pc = "collect" =>
          \A k \in DOMAIN priceGraphOffers :
              priceGraphOffers[k].ReturnDate - priceGraphOffers[k].StartDate
                  = args.TripLengths[calls.GetPriceGraph]

OneSearchAtATime ==
    calls'.GetPriceGraph # calls.GetPriceGraph =>
        /\ calls'.GetPriceGraph = calls.GetPriceGraph + 1
        /\ AllEnded
        /\ wg = 0
        /\ resultsCh = <<>>

SortedAtTheEnd ==
    allResults' # allResults =>
        \/ /\ pc = "collect"
           /\ pc' = "loop"
           /\ allResults' = allResults \o results
        \/ /\ tripIdx > Len(args.TripLengths)
           /\ pc' = "done"
           /\ allResults' = SortSlice(allResults)
           /\ ret' = Returned(allResults', Nil)

C14_OneTripLengthAtATime ==
    /\ []InRequestOrder
    /\ [][OneSearchAtATime /\ SortedAtTheEnd]_vars

\* two different trip lengths, each of which contributed a Result
C14_Witness ==
    /\ Succeeded
    /\ calls.GetPriceGraph = 2
    /\ args.TripLengths[1] # args.TripLengths[2]
    /\ \A t \in 1..2 :
          \E k \in DOMAIN ret.results : ret.results[k].TripLength = args.TripLengths[t]

(***************************************************************************)
(* C15: when the GetPriceGraph call of a search fails, the search starts   *)
(* no goroutine and issues no GetOffers or SerializeURL call, and Find     *)
(* returns exactly that error and no results.                              *)
(***************************************************************************)
PriceGraphFailed == Done /\ ret.err # Nil /\ ret.err[2] = "GetPriceGraph"

FailsAtOnce ==
    (pc = "priceGraph" /\ faulted' # faulted) =>
        /\ pc' = "done"
        /\ ret'.results = <<>>
        /\ ret'.err # Nil
        /\ ret'.err[2] = "GetPriceGraph"
        /\ UNCHANGED <<task, wg, resultsCh, calls, allResults>>

C15_PriceGraphFailure ==
    /\ [](PriceGraphFailed =>
            /\ ret.results = <<>>
            /\ AllEnded
            /\ calls.GetPriceGraph = tripIdx
            /\ calls.GetOffers <= 2 * (tripIdx - 1) * Len(client.graph)
            /\ calls.SerializeURL <= (tripIdx - 1) * Len(client.graph))
    /\ [][FailsAtOnce]_vars

\* the price graph of the second trip length failed after the first trip
\* length had been searched with calls of its own
C15_Witness ==
    /\ PriceGraphFailed
    /\ tripIdx = 2
    /\ calls.GetOffers > 0
    /\ allResults # <<>>

(***************************************************************************)
(* C16: a goroutine calls GetOffers for its sample once; it calls          *)
(* GetOffers for the baseline, once, only when the first call returned a   *)
(* priced winner; it calls SerializeURL, once, only when the baseline call *)
(* returned a price range whose low the winner's price is below; and it    *)
(* sends a Result only when SerializeURL has returned.  Calls are issued   *)
(* by these steps alone, so a Find none of whose calls fails has made one  *)
(* GetOffers call per sample, one more per sample with a winner, and one   *)
(* SerializeURL call per bargain.                                          *)
(***************************************************************************)
HasWinner(s) == ValidOffers(GetOffers(s.StartDate, s.ReturnDate)) # {}

Protocol ==
    {<<"start", "offers">>,
     <<"offers", "baseline">>, <<"offers", "doneNoData">>, <<"offers", "cancel">>,
     <<"baseline", "serialize">>, <<"baseline", "doneNoData">>, <<"baseline", "cancel">>,
     <<"serialize", "sendResult">>, <<"serialize", "cancel">>,
     <<"sendResult", "doneResult">>,
     <<"cancel", "sendErr">>, <<"sendErr", "doneErr">>}

Moved(from, to) ==
    {i \in Tasks : task[i].pc = from /\ task'[i].pc = to}

FollowsProtocol ==
    (pc = "collect" /\ pc' = "collect") =>
        /\ \A i \in Tasks :
              task'[i].pc # task[i].pc => <<task[i].pc, task'[i].pc>> \in Protocol
        /\ calls'.GetOffers - calls.GetOffers
              = Cardinality(Moved("start", "offers"))
                  + Cardinality(Moved("offers", "baseline"))
        /\ calls'.SerializeURL - calls.SerializeURL
              = Cardinality(Moved("baseline", "serialize"))
        /\ Len(resultsCh') > Len(resultsCh) =>
              Cardinality(Moved("sendResult", "doneResult"))
                  + Cardinality(Moved("sendErr", "doneErr")) = 1

Fetched ==
    pc = "collect" =>
        \A i \in Tasks :
            /\ task[i].pc = "baseline" => HasWinner(priceGraphOffers[i])
            /\ task[i].pc \in {"serialize", "sendResult", "doneResult"} =>
                  IsBargain(priceGraphOffers[i])
            /\ task[i].pc = "sendResult" => task[i].url = SerializeURL(task[i].bestOffer)

FetchedInAll ==
    (Succeeded /\ ~faulted /\ validateArgs(args) = Nil) =>
        /\ calls.GetOffers
              = Cardinality(Searched)
                  + Cardinality({tj \in Searched : HasWinner(SamplesOf(tj[1])[tj[2]])})
        /\ calls.SerializeURL = Cardinality(Bargains)

C16_CallProtocol ==
    /\ [](Fetched /\ FetchedInAll)
    /\ [][FollowsProtocol]_vars

\* a search of two goroutines: one went through all three calls and sent its
\* Result, the other stopped after the baseline call
C16_Witness ==
    /\ Succeeded
    /\ ~faulted
    /\ Len(task) = 2
    /\ \E i, j \in Tasks :
          /\ task[i].pc = "doneResult"
          /\ task[j].pc = "doneNoData"
          /\ HasWinner(priceGraphOffers[j])

(***************************************************************************)
(* C17: the price of every Result Find returns is strictly positive, also  *)
(* when the client lists offers with a zero or a negative price.           *)
(***************************************************************************)
C17_PositivePrice ==
    Succeeded => \A k \in DOMAIN ret.results : ret.results[k].Price > 0

(***************************************************************************)
(* C18: the context the goroutines' calls carry is cancelled exactly when  *)
(* a goroutine of the search has called cancel or the caller has cancelled *)
(* the context given to Find, so that a call returns a cancellation error  *)
(* only then; once cancelled it stays cancelled for the rest of the        *)
(* search, and no step of a search cancels the caller's context.           *)
(***************************************************************************)
Signalled == \E i \in Tasks : task[i].pc \in {"sendErr", "doneErr"}

Visible ==
    pc = "collect" =>
        /\ cancelled <=> Signalled
        /\ ctxCancelled <=> (Signalled \/ ctxDone)
        /\ \A i \in Tasks :
              (task[i].err # Nil /\ task[i].err[1] = "canceled") => ctxCancelled

StaysCancelled ==
    /\ (pc = "collect" /\ pc' = "collect" /\ cancelled) => cancelled'
    /\ ctxDone => ctxDone'
    /\ (ctxDone' /\ ~ctxDone) =>
          UNCHANGED <<pc, task, cancelled, faulted, resultsCh, firstErr, calls>>

C18_CancellationVisible ==
    /\ []Visible
    /\ [][StaysCancelled]_vars

\* the caller has cancelled, no goroutine has: a call returned a cancellation
\* error, and a second goroutine is yet to call cancel
C18_Witness ==
    /\ pc = "collect"
    /\ ctxDone
    /\ ~cancelled
    /\ \E i \in Tasks :
          /\ task[i].pc = "cancel"
          /\ task[i].err[1] = "canceled"

(***************************************************************************)
(* C19: when every call of the client returns, Find returns, whatever the  *)
(* scheduling and the number of samples.  Every goroutine sends at most    *)
(* one item, resultsCh never holds more items than its capacity, and a     *)
(* goroutine about to send finds room in it, also when the context has     *)
(* been cancelled or an error has been sent before.                        *)
(***************************************************************************)
Senders == {i \in Tasks : task[i].pc \in {"sendResult", "sendErr"}}

Sent == {i \in Tasks : task[i].pc \in {"doneResult", "doneErr"}}

NeverBlocks ==
    pc = "collect" =>
        /\ Capacity = Len(task)
        /\ Len(resultsCh) <= Capacity
        /\ Len(resultsCh) + Len(results) <= Cardinality(Sent)
        /\ Senders # {} => Len(resultsCh) < Capacity

C19_Terminates ==
    /\ []NeverBlocks
    /\ <>Done

\* resultsCh is full: both goroutines have sent, one of them an error after
\* it had cancelled the context, and nothing has been received yet
C19_Witness ==
    /\ pc = "collect"
    /\ Len(task) = 2
    /\ Len(resultsCh) = Capacity
    /\ cancelled
    /\ \E k \in DOMAIN resultsCh : resultsCh[k].err # Nil

(***************************************************************************)
(* C20: resultsCh is closed once in a search, when every goroutine has     *)
(* ended; no goroutine sends on it once it is closed; and the receive loop *)
(* ends only when the channel is closed and every item sent has been       *)
(* received: one Result for each goroutine that sent one, and an error     *)
(* recorded exactly when a goroutine sent one.                             *)
(***************************************************************************)
ClosedAfterAll == (pc = "collect" /\ closed) => (AllEnded /\ wg = 0)

ClosedOnce ==
    (pc = "collect" /\ pc' = "collect") =>
        /\ closed => closed'
        /\ closed' # closed => (AllEnded /\ wg = 0 /\ resultsCh' = resultsCh)
        /\ Len(resultsCh') > Len(resultsCh) => ~closed

Drained ==
    (pc = "collect" /\ pc' # "collect") =>
        /\ closed
        /\ resultsCh = <<>>
        /\ Len(results) = Cardinality({i \in Tasks : task[i].pc = "doneResult"})
        /\ firstErr # Nil <=> (\E i \in Tasks : task[i].pc = "doneErr")
        /\ firstErr # Nil => (\E i \in Tasks : task[i].err = firstErr)

C20_ClosedOnceAndDrained ==
    /\ []ClosedAfterAll
    /\ [][ClosedOnce /\ Drained]_vars

\* the channel is closed while both items sent on it, a Result and an error,
\* wait to be received
C20_Witness ==
    /\ pc = "collect"
    /\ closed
    /\ Len(resultsCh) = 2
    /\ \E j, k \in DOMAIN resultsCh : resultsCh[j].err = Nil /\ resultsCh[k].err # Nil

====
